---- MODULE Spec2Model ----
(***************************************************************************)
(* The service registry of lib/registry.js: per service the lifecycle      *)
(* probe -> (conflict: rename, restart) -> announce -> teardown, run as    *)
(* timers and transport callbacks interleaved on one event loop.           *)
(*                                                                         *)
(* Strings are sequences of one-character strings, so that concatenation,  *)
(* number formatting and case folding are computed, not assumed.           *)
(***************************************************************************)
EXTENDS Integers, Sequences, FiniteSets, TLC

\* ------------------------------------------------------------------ bounds
\* Number of services, and of API calls (publish, start, stop,
\* unpublishAll, destroy) a behaviour makes.
MaxServices == 2
MaxCalls == 3
\* Number of probe() runs plus announce() loops a behaviour starts
MaxRuns == 3
\* 'error' events the transport emits
MaxErrors == 1

\* --------------------------------------------------------------- constants
REANNOUNCE_MAX_MS == 60 * 60 * 1000
REANNOUNCE_FACTOR == 3
\* timers.setTimeout(++retries < 3 ? send : done, 250)
ProbeRetries == 3
\* let delay = 1000
InitialDelay == 1000

\* ----------------------------------------------------------------- strings
Uppers == <<"A","B","C","D","E","F","G","H","I","J","K","L","M",
            "N","O","P","Q","R","S","T","U","V","W","X","Y","Z">>
Lowers == <<"a","b","c","d","e","f","g","h","i","j","k","l","m",
            "n","o","p","q","r","s","t","u","v","w","x","y","z">>
DigitChars == <<"0","1","2","3","4","5","6","7","8","9">>
Range26(seq) == { seq[i] : i \in 1..26 }

Chars == Range26(Uppers) \cup Range26(Lowers) \cup { DigitChars[i] : i \in 1..10 }
             \cup {" ", "(", ")", "."}

\* String.prototype.replace(/[A-Z]/g, lower case of the match), per character
LowerChar == [c \in Chars |->
    IF \E i \in 1..26 : Uppers[i] = c
    THEN Lowers[CHOOSE i \in 1..26 : Uppers[i] = c]
    ELSE c]

UpperChar == [c \in Chars |->
    IF \E i \in 1..26 : Lowers[i] = c
    THEN Uppers[CHOOSE i \in 1..26 : Lowers[i] = c]
    ELSE c]

ToLower(str) == [i \in 1..Len(str) |-> LowerChar[str[i]]]
ToUpper(str) == [i \in 1..Len(str) |-> UpperChar[str[i]]]

\* dns-equal: both names with [A-Z] replaced by lower case, then ===
dnsEqual(a, b) == ToLower(a) = ToLower(b)

\* Number -> decimal string, as string concatenation with a number does
RECURSIVE Digits(_)
Digits(n) ==
    IF n < 10 THEN <<DigitChars[n + 1]>>
    ELSE Digits(n \div 10) \o <<DigitChars[(n % 10) + 1]>>

\* service._originalName + " (" + service._nameAttempt + ")"
RenamedWrong(originalName, nameAttempt) ==
    originalName \o <<" ", "(">> \o Digits(nameAttempt - 1) \o <<")">>
Renamed(originalName, nameAttempt) ==
    originalName \o <<" ", "(">> \o Digits(nameAttempt) \o <<")">>

\* service.name + "." + service.type
Fqdn(name, type) == name \o <<".">> \o type

\* ---------------------------------------------------------------- inputs
\* The name the k-th publish() is given: names differ between services
PublishNames == << <<"T","v">>, <<"p","c">>, <<"N","a","s">>, <<"h","i","F","i">> >>
PublishName(k) == PublishNames[((k - 1) % Len(PublishNames)) + 1]
PublishType == <<"h">>
OtherName == <<"x",".","h">>
\* JavaScript values of the probe option: true, false, or no such property
Undefined == "undefined"
Truthy(v) == v = "true"
\* The opts argument of start(): an options object, or (conflict branch,
\* service.start(registry, opts)) the Registry object, which has no probe
RegistryObj == [kind |-> "Registry", probe |-> Undefined]
Options(probe) == [kind |-> "Object", probe |-> probe]
OptsProbe(opts) == Truthy(opts.probe)

Services == 1..MaxServices

VARIABLES
    service,    \* Services -> the Service object's fields
    services,   \* registry._services
    probes,     \* the probe() invocations, in call order: closure state
    loops,      \* the announce() invocations, in call order: closure state
    goodbyes,   \* goodbye broadcasts in flight (teardown's respond)
    cache,      \* names of the record sets in the transport's cache
    calls,      \* API calls made so far
    cbLog,      \* teardown callbacks invoked, by call number
    errorListeners, \* the transport's 'error' listeners: the service each
                    \* start() registered one for, in registration order
    errorLog    \* outcome of each 'error' listener invoked so far

vars == <<service, services, probes, loops, goodbyes, cache, calls, cbLog,
          errorListeners, errorLog>>

\* The whole state as one value: the code's functions are state -> state
Cur == [service |-> service, services |-> services, probes |-> probes,
        loops |-> loops, goodbyes |-> goodbyes, cache |-> cache,
        cbLog |-> cbLog, errorListeners |-> errorListeners]

\* An exception left an 'error' listener uncaught: the run has ended
Halted == \E i \in DOMAIN errorLog : errorLog[i].event = "ReferenceError"

Commit(st) ==
    /\ ~Halted
    /\ Len(st.probes) + Len(st.loops) <= MaxRuns
    /\ service' = st.service
    /\ services' = st.services
    /\ probes' = st.probes
    /\ loops' = st.loops
    /\ goodbyes' = st.goodbyes
    /\ cache' = st.cache
    /\ cbLog' = st.cbLog
    /\ errorListeners' = st.errorListeners
    /\ errorLog' = errorLog

\* ---------------------------------------------------------------- Service
NoService ==
    [created |-> FALSE, name |-> <<>>, type |-> <<>>, fqdn |-> <<>>,
     originalName |-> <<>>, nameAttempt |-> 0,
     activated |-> FALSE, destroyed |-> FALSE, published |-> FALSE]

NewService(name, type) ==
    [created |-> TRUE, name |-> name, type |-> type, fqdn |-> Fqdn(name, type),
     originalName |-> <<>>, nameAttempt |-> 0,
     activated |-> FALSE, destroyed |-> FALSE, published |-> FALSE]

\* index = indexOf(x); if (index !== -1) splice(index, 1)
RemoveFirst(seq, x) ==
    IF \E i \in 1..Len(seq) : seq[i] = x
    THEN LET k == CHOOSE i \in 1..Len(seq) :
                     seq[i] = x /\ \A j \in 1..(i - 1) : seq[j] # x
         IN  SubSeq(seq, 1, k - 1) \o SubSeq(seq, k + 1, Len(seq))
    ELSE seq

Range(seq) == { seq[i] : i \in 1..Len(seq) }

\* service._records(): the record set under the current fqdn (one record
\* stands for the set; ttl is "default" until teardown forces 0)
Records(sv) == << [name |-> sv.fqdn, ttl |-> "default"] >>
Goodbye(records) == [i \in 1..Len(records) |-> [records[i] EXCEPT !.ttl = 0]]
RecordNames(records) == { records[i].name : i \in 1..Len(records) }

\* --------------------------------------------------------------- announce
\* broadcast(): "abort if the service have or is being stopped"
BroadcastAllowed(sv) == sv.activated /\ ~sv.destroyed

Broadcast(st, a) ==
    IF ~BroadcastAllowed(st.service[st.loops[a].service])
    THEN [st EXCEPT !.loops[a].pc = "idle"]
    ELSE [st EXCEPT !.loops[a].pc = "respond"]

\* announce(server, service): register the record set, start the loop.
\* origin records who called announce: "probe" (the probe's callback) or
\* the kind of opts start() was called with.
Announce(st, s, origin) ==
    LET packet == Records(st.service[s])
        loop == [service |-> s, packet |-> packet, delay |-> InitialDelay,
                 pc |-> "idle", completed |-> 0, ups |-> 0,
                 waits |-> <<>>, origin |-> origin]
        st1 == [st EXCEPT !.cache = @ \cup RecordNames(packet),
                          !.loops = Append(@, loop)]
    IN  Broadcast(st1, Len(st1.loops))

\* ------------------------------------------------------------------ probe
\* probe(mdns, service, cb): listener on, jitter timer set
Probe(st, s) ==
    [st EXCEPT !.probes = Append(@,
        [service |-> s, listening |-> TRUE, sent |-> FALSE, retries |-> 0,
         pc |-> "jitter", queries |-> <<>>, results |-> <<>>,
         stale |-> FALSE])]

\* ------------------------------------------------------------------ start
Start(st, s, opts) ==
    IF st.service[s].activated THEN st
    ELSE LET sv == st.service[s]
             named == IF sv.originalName = <<>>
                      THEN [sv EXCEPT !.originalName = sv.name, !.nameAttempt = 1]
                      ELSE sv
             st1 == [st EXCEPT !.service[s] = [named EXCEPT !.activated = TRUE],
                               !.services = Append(@, s),
                               !.errorListeners = Append(@, s)]
         IN  IF OptsProbe(opts) THEN Probe(st1, s) ELSE Announce(st1, s, opts.kind)

\* The probe callback with the conflict branch's splice left out
ProbeCallbackNoRemove(st, s, exists) ==
    IF exists
    THEN LET sv == st.service[s]
             n == sv.nameAttempt + 1
             name == Renamed(sv.originalName, n)
             sv1 == [sv EXCEPT !.activated = FALSE, !.nameAttempt = n,
                               !.name = name, !.fqdn = Fqdn(name, sv.type)]
         IN  Start([st EXCEPT !.service[s] = sv1], s, RegistryObj)
    ELSE Announce(st, s, "probe")

\* The callback start() hands to probe(): conflict branch, or announce
ProbeCallback(st, s, exists) ==
    IF exists
    THEN LET sv == st.service[s]
             n == sv.nameAttempt + 1
             name == Renamed(sv.originalName, n)
             sv1 == [sv EXCEPT !.activated = FALSE, !.nameAttempt = n,
                               !.name = name, !.fqdn = Fqdn(name, sv.type)]
             st1 == [st EXCEPT !.service[s] = sv1,
                               !.services = RemoveFirst(@, s)]
         IN  Start(st1, s, RegistryObj)
    ELSE Announce(st, s, "probe")

\* done(exists): removeListener, clearTimeout(timer), cb(Boolean(exists)).
\* results records each callback invocation and the fqdn it was about.
Done(st, p, exists) ==
    LET pr == st.probes[p]
        st1 == [st EXCEPT !.probes[p] =
                   [pr EXCEPT !.listening = FALSE,
                              !.pc = IF pr.pc \in {"timerSend", "timerDone"}
                                     THEN "idle" ELSE pr.pc,
                              !.results = Append(@,
                                  [exists |-> exists,
                                   fqdn |-> st.service[pr.service].fqdn])]]
    IN  ProbeCallback(st1, pr.service, exists)

\* send(): the guard, then mdns.query(service.fqdn, 'ANY', ...)
SendAllowed(sv) == sv.activated /\ ~sv.destroyed

Send(st, p) ==
    LET pr == st.probes[p] IN
    IF ~SendAllowed(st.service[pr.service])
    THEN [st EXCEPT !.probes[p].pc = "idle"]
    ELSE [st EXCEPT !.probes[p].pc = "query",
                    !.probes[p].queries = Append(@, st.service[pr.service].fqdn)]

\* A matchRR that accepts every record
MatchRRAny(rr, fqdn) == TRUE

\* matchRR over packet.answers and packet.additionals
MatchRR(rr, fqdn) == dnsEqual(rr.name, fqdn)
Matches(packet, fqdn) ==
    \/ \E i \in 1..Len(packet.answers) : MatchRR(packet.answers[i], fqdn)
    \/ \E i \in 1..Len(packet.additionals) : MatchRR(packet.additionals[i], fqdn)

\* onresponse(packet); stale notes a matching packet ignored because !sent
\* (kept until sent is set: from then on responses count)
OnResponseNoSentCheck(st, p, packet) ==
    IF Matches(packet, st.service[st.probes[p].service].fqdn)
    THEN Done(st, p, TRUE) ELSE st
OnResponse(st, p, packet) ==
    LET pr == st.probes[p]
        hit == Matches(packet, st.service[pr.service].fqdn)
    IN  IF ~pr.sent
        THEN [st EXCEPT !.probes[p].stale = @ \/ hit]
        ELSE IF hit THEN Done(st, p, TRUE) ELSE st

\* mdns.emit('response', packet): the listeners registered when the event
\* is emitted, called in registration order
RECURSIVE Emit(_, _, _)
Emit(st, listeners, packet) ==
    IF listeners = <<>> THEN st
    ELSE Emit(OnResponse(st, Head(listeners), packet), Tail(listeners), packet)

\* --------------------------------------------------------------- teardown
\* teardown without the early return on an empty record list
TeardownNoEarlyReturn(st, list, id) ==
    LET act == SelectSeq(list, LAMBDA s : st.service[s].activated)
        records == [i \in 1..Len(act) |-> Goodbye(Records(st.service[act[i]]))[1]]
        st1 == [st EXCEPT !.service =
                   [s \in Services |->
                       IF s \in Range(act) THEN [@[s] EXCEPT !.activated = FALSE]
                       ELSE @[s]]]
    IN  [st1 EXCEPT !.cache = @ \ RecordNames(records),
                    !.goodbyes = Append(@,
                        [services |-> act, records |-> records, id |-> id])]

Teardown(st, list, id) ==
    LET act == SelectSeq(list, LAMBDA s : st.service[s].activated)
        records == [i \in 1..Len(act) |-> Goodbye(Records(st.service[act[i]]))[1]]
        st1 == [st EXCEPT !.service =
                   [s \in Services |->
                       IF s \in Range(act) THEN [@[s] EXCEPT !.activated = FALSE]
                       ELSE @[s]]]
    IN  IF Len(records) = 0
        THEN [st1 EXCEPT !.cbLog = Append(@, id)]
        ELSE [st1 EXCEPT !.cache = @ \ RecordNames(records),
                         !.goodbyes = Append(@,
                             [services |-> act, records |-> records, id |-> id])]

\* ------------------------------------------------------------------- Init
Init ==
    /\ service = [s \in Services |-> NoService]
    /\ services = <<>>
    /\ probes = <<>>
    /\ loops = <<>>
    /\ goodbyes = <<>>
    /\ cache = {}
    /\ calls = 0
    /\ cbLog = <<>>
    /\ errorListeners = <<>>
    /\ errorLog = <<>>

Created == { s \in Services : service[s].created }

\* ---------------------------------------------------------------- actions
\* Registry.prototype.publish(opts): opts.probe is true, false or absent
Publish(optProbe) ==
    /\ calls < MaxCalls
    /\ Cardinality(Created) < MaxServices
    /\ LET s == Cardinality(Created) + 1
           st == [Cur EXCEPT !.service[s] = NewService(PublishName(s), PublishType)]
       IN  Commit(Start(st, s, Options(IF optProbe # "false" THEN "true" ELSE "false")))
    /\ calls' = calls + 1

\* service.start(opts) on a service that is not active (a no-op otherwise)
UserStart(s, opts) ==
    /\ calls < MaxCalls
    /\ service[s].created
    /\ ~service[s].activated
    /\ Commit(Start(Cur, s, opts))
    /\ calls' = calls + 1

\* service.stop(cb) on an active service (returns at once otherwise)
Stop(s) ==
    /\ calls < MaxCalls
    /\ service[s].created
    /\ service[s].activated
    /\ LET st == Teardown(Cur, <<s>>, calls + 1)
       IN  Commit([st EXCEPT !.services = RemoveFirst(@, s)])
    /\ calls' = calls + 1

\* Registry.prototype.unpublishAll(cb)
UnpublishAll ==
    /\ calls < MaxCalls
    /\ LET st == Teardown(Cur, services, calls + 1)
       IN  Commit([st EXCEPT !.services = <<>>])
    /\ calls' = calls + 1

\* Registry.prototype.destroy()
Destroy ==
    /\ ~Halted
    /\ calls < MaxCalls
    /\ services # <<>>
    /\ service' = [s \in Services |->
                      IF s \in Range(services)
                      THEN [service[s] EXCEPT !.destroyed = TRUE]
                      ELSE service[s]]
    /\ calls' = calls + 1
    /\ UNCHANGED <<services, probes, loops, goodbyes, cache, cbLog,
                   errorListeners, errorLog>>

\* The jitter timer or a retry timer fires: send()
SendTimer(p) ==
    /\ p \in DOMAIN probes
    /\ probes[p].pc \in {"jitter", "timerSend"}
    /\ Commit(Send(Cur, p))
    /\ UNCHANGED calls

\* mdns.query's callback
\* ++retries < 3 ? send : done
NextTimerOffByOne(retries) ==
    IF retries <= ProbeRetries THEN "timerSend" ELSE "timerDone"
NextTimer(retries) ==
    IF retries < ProbeRetries THEN "timerSend" ELSE "timerDone"

QueryDone(p) ==
    /\ ~Halted
    /\ p \in DOMAIN probes
    /\ probes[p].pc = "query"
    /\ probes' = [probes EXCEPT ![p] =
                     [@ EXCEPT !.sent = TRUE,
                               !.stale = FALSE,
                               !.retries = @ + 1,
                               !.pc = NextTimer(probes[p].retries + 1)]]
    /\ UNCHANGED <<service, services, loops, goodbyes, cache, calls, cbLog,
                   errorListeners, errorLog>>

\* The timer set after the last retry fires: done()
DoneTimer(p) ==
    /\ p \in DOMAIN probes
    /\ probes[p].pc = "timerDone"
    /\ Commit(Done([Cur EXCEPT !.probes[p].pc = "idle"], p, FALSE))
    /\ UNCHANGED calls

\* The transport emits 'response'
Listeners == SelectSeq([i \in 1..Len(probes) |-> i], LAMBDA p : probes[p].listening)
Delivered(packet) == Emit(Cur, Listeners, packet)
Response(packet) ==
    /\ Commit(Delivered(packet))
    /\ UNCHANGED calls

\* server.mdns.respond's callback in broadcast()
NextDelayDoubled(delay) == delay * 2
NextDelay(delay) == delay * REANNOUNCE_FACTOR
Reschedule(delay, sv) == delay < REANNOUNCE_MAX_MS /\ ~sv.destroyed

BroadcastDone(a) ==
    /\ ~Halted
    /\ a \in DOMAIN loops
    /\ loops[a].pc = "respond"
    /\ LET s == loops[a].service
           up == ~service[s].published
           delay == NextDelay(loops[a].delay)
           again == Reschedule(delay, service[s])
       IN  /\ service' = [service EXCEPT ![s] =
                             IF up THEN [@ EXCEPT !.activated = TRUE,
                                                  !.published = TRUE]
                             ELSE @]
           /\ loops' = [loops EXCEPT ![a] =
                           [@ EXCEPT !.completed = @ + 1,
                                     !.ups = IF up THEN @ + 1 ELSE @,
                                     !.delay = delay,
                                     !.waits = IF again THEN Append(@, delay) ELSE @,
                                     !.pc = IF again THEN "timer" ELSE "idle"]]
    /\ UNCHANGED <<services, probes, goodbyes, cache, calls, cbLog,
                   errorListeners, errorLog>>

\* The re-broadcast timer fires: broadcast()
AnnounceTimer(a) ==
    /\ a \in DOMAIN loops
    /\ loops[a].pc = "timer"
    /\ Commit(Broadcast(Cur, a))
    /\ UNCHANGED calls

\* server.mdns.respond's callback in teardown()
GoodbyeDone(g) ==
    /\ ~Halted
    /\ LET gb == goodbyes[g]
       IN  /\ service' = [s \in Services |->
                             IF s \in Range(gb.services)
                             THEN [service[s] EXCEPT !.published = FALSE]
                             ELSE service[s]]
           /\ cbLog' = Append(cbLog, gb.id)
    /\ goodbyes' = SubSeq(goodbyes, 1, g - 1) \o SubSeq(goodbyes, g + 1, Len(goodbyes))
    /\ UNCHANGED <<services, probes, loops, cache, calls,
                   errorListeners, errorLog>>

\* -------------------------------------------------------- 'error' event
\* Identifiers bound where the listener of start() is written: its own
\* parameter, start's parameters and this, and the module's top-level
\* names. The const service of the if (opts.probe) block is not among
\* them: a block's bindings are not visible outside the block.
ErrorListenerScope ==
    {"err", "registry", "opts", "this",
     "timers", "dnsEqual", "flatten", "Service", "REANNOUNCE_MAX_MS",
     "REANNOUNCE_FACTOR", "Registry", "start", "stop", "probe", "announce",
     "teardown"}

\* function (err) { service.emit('error', err) }, registered by the
\* start() of service s: evaluating an unbound identifier throws
OnError(log, s) ==
    IF "service" \in ErrorListenerScope
    THEN Append(log, [event |-> "error", service |-> s])
    ELSE Append(log, [event |-> "ReferenceError", service |-> s])

\* mdns.emit('error', err): the listeners in registration order, up to
\* the first one that throws
RECURSIVE EmitError(_, _)
EmitError(log, listeners) ==
    IF listeners = <<>> THEN log
    ELSE LET log1 == OnError(log, Head(listeners))
         IN  IF log1[Len(log1)].event = "ReferenceError" THEN log1
             ELSE EmitError(log1, Tail(listeners))

\* The transport emits 'error' after some start() has registered a listener
TransportError ==
    /\ ~Halted
    /\ Len(errorLog) < MaxErrors
    /\ errorListeners # <<>>
    /\ errorLog' = EmitError(errorLog, errorListeners)
    /\ UNCHANGED <<service, services, probes, loops, goodbyes, cache, calls,
                   cbLog, errorListeners>>

\* Packets the network may deliver: a record named as a service's fqdn
\* among the answers, the same name in upper case among the additionals,
\* or unrelated records only
PacketsFor(fqdn) ==
    { [answers |-> << [name |-> fqdn] >>, additionals |-> <<>>],
      [answers |-> << [name |-> OtherName] >>,
       additionals |-> << [name |-> ToUpper(fqdn)] >>] }
Packets ==
    UNION { PacketsFor(service[s].fqdn) : s \in Created }
    \cup { [answers |-> << [name |-> OtherName] >>, additionals |-> <<>>] }

Next ==
    \/ \E optProbe \in {"true", "false", Undefined} : Publish(optProbe)
    \/ \E s \in Services, probe \in {"true", "false"} : UserStart(s, Options(probe))
    \/ \E s \in Services : Stop(s)
    \/ UnpublishAll
    \/ Destroy
    \/ \E p \in DOMAIN probes : SendTimer(p)
    \/ \E p \in DOMAIN probes : QueryDone(p)
    \/ \E p \in DOMAIN probes : DoneTimer(p)
    \/ \E packet \in Packets : Response(packet)
    \/ \E a \in DOMAIN loops : BroadcastDone(a)
    \/ \E a \in DOMAIN loops : AnnounceTimer(a)
    \/ \E g \in DOMAIN goodbyes : GoodbyeDone(g)
    \/ TransportError

Spec == Init /\ [][Next]_vars

\* ------------------------------------------------- the undisturbed network
\* Behaviours in which nothing is stopped or destroyed and no response
\* names a service: publish, the timers and the transport's callbacks only.
\* Timers and callbacks of an open transport eventually fire.
Pending == Cardinality({ p \in DOMAIN probes : probes[p].results = <<>> })

QuietPublish(optProbe) ==
    /\ Len(probes) + Len(loops) + Pending
          + (IF optProbe = "false" THEN 1 ELSE 2) <= MaxRuns
    /\ Publish(optProbe)

QuietResponse ==
    Response([answers |-> << [name |-> OtherName] >>, additionals |-> <<>>])

QuietNext ==
    \/ \E optProbe \in {"true", "false", Undefined} : QuietPublish(optProbe)
    \/ QuietResponse
    \/ \E p \in DOMAIN probes : SendTimer(p)
    \/ \E p \in DOMAIN probes : QueryDone(p)
    \/ \E p \in DOMAIN probes : DoneTimer(p)
    \/ \E a \in DOMAIN loops : BroadcastDone(a)
    \/ \E a \in DOMAIN loops : AnnounceTimer(a)

QuietFair ==
    /\ \A p \in 1..MaxRuns :
          WF_vars(SendTimer(p)) /\ WF_vars(QueryDone(p)) /\ WF_vars(DoneTimer(p))
    /\ \A a \in 1..MaxRuns :
          WF_vars(BroadcastDone(a)) /\ WF_vars(AnnounceTimer(a))

QuietSpec == Init /\ [][QuietNext]_vars /\ QuietFair

\* ================================================================= claims
ProbesOf(s) == { p \in DOMAIN probes : probes[p].service = s }
LoopsOf(s) == { a \in DOMAIN loops : loops[a].service = s }
Finalized(p) == probes[p].results # <<>>
ReportedExists(p) ==
    \E i \in DOMAIN probes[p].results : probes[p].results[i].exists
TimerPending(p) == probes[p].pc \in {"jitter", "timerSend", "timerDone"}
RECURSIVE SumUps(_)
SumUps(as) ==
    IF as = {} THEN 0
    ELSE LET a == CHOOSE x \in as : TRUE IN loops[a].ups + SumUps(as \ {a})
\* "up" notifications emitted for service s
Ups(s) == SumUps(LoopsOf(s))

\* C1: a probe run invokes its completion callback exactly once; once it has
\* finalized, its response listener is off, no timer of the run is pending
\* to fire, and the callback is not invoked again.
C1_CallbackOnce ==
    \A p \in DOMAIN probes :
        /\ Len(probes[p].results) <= 1
        /\ Finalized(p) => ~probes[p].listening /\ ~TimerPending(p)

\* C2: after a rename, the records are registered and broadcast under the new
\* name (an announce loop for it exists) only once a probe of that service
\* has concluded "not exists" for that name.
C2_ProbeBeforeAnnounce ==
    \A a \in DOMAIN loops :
        LET s == loops[a].service
            n == loops[a].packet[1].name
        IN  (loops[a].origin # "Object"
             /\ n # Fqdn(service[s].originalName, service[s].type))
            => \E p \in ProbesOf(s) :
                  \E i \in DOMAIN probes[p].results :
                      probes[p].results[i] = [exists |-> FALSE, fqdn |-> n]

\* C3: with probing enabled and an undisturbed network, the probe sends
\* exactly 3 queries for the fqdn, concludes "not exists" once, the records
\* are registered and broadcast, and published becomes (and stays) true
\* with "up" emitted exactly once.
C3_Settled(s) ==
    LET fq == Fqdn(PublishName(s), PublishType) IN
    /\ \A p \in ProbesOf(s) :
          /\ probes[p].queries = <<fq, fq, fq>>
          /\ probes[p].results = << [exists |-> FALSE, fqdn |-> fq] >>
          /\ ~probes[p].listening
    /\ fq \in cache
    /\ \E a \in LoopsOf(s) :
          /\ loops[a].packet = << [name |-> fq, ttl |-> "default"] >>
          /\ loops[a].completed >= 1
    /\ service[s].published
    /\ Ups(s) = 1

C3_QuietProbeAnnounces ==
    /\ [](\A s \in Services :
            /\ Ups(s) <= 1
            /\ \A p \in ProbesOf(s) :
                  Len(probes[p].queries) <= 3 /\ Len(probes[p].results) <= 1)
    /\ \A s \in Services : (ProbesOf(s) # {}) ~> [](C3_Settled(s))

C3_Witness ==
    \E s \in Services : ProbesOf(s) # {} /\ C3_Settled(s)

\* C4: once a probe has finalized with "exists" it transmits no further
\* query.
C4_NoQueryAfterExists ==
    [][\A p \in DOMAIN probes :
          ReportedExists(p) => probes'[p].queries = probes[p].queries]_vars

\* C5: while a probe has transmitted no query, nothing finalizes it: a
\* response, matching or not, leaves it without a result (and so without a
\* rename caused by it).
C5_StaleResponseIgnored ==
    [][\A p \in DOMAIN probes :
          probes[p].queries = <<>> =>
              /\ probes'[p].results = <<>>
              /\ probes'[p].listening]_vars

C5_Witness ==
    \E p \in DOMAIN probes :
        /\ probes[p].stale
        /\ probes[p].queries = <<>>
        /\ probes[p].results = <<>>
        /\ service[probes[p].service].nameAttempt = 1

\* C6: a deactivated service becomes activated again only by a call of
\* start(): an API call, or the restart of the conflict branch (a probe
\* callback); never by a broadcast-completion callback or a timer.
C6_StaysDeactivated ==
    [][\A s \in Services :
          (service[s].created /\ ~service[s].activated /\ service'[s].activated)
          => \/ calls' # calls
             \/ \E p \in DOMAIN probes :
                   probes'[p].results # probes[p].results]_vars

\* C7: an announce cycle emits "up" only on completion of its first
\* broadcast, and only once.
C7_UpOnFirstBroadcastOnly ==
    [][\A a \in DOMAIN loops :
          loops'[a].ups # loops[a].ups
          => loops[a].completed = 0 /\ loops[a].ups = 0]_vars

\* C8: for a destroyed service no probe query is sent, no record set is
\* registered (no announce loop is started) and no broadcast is issued.
C8_NothingAfterDestroy ==
    [][\A s \in Services :
          service[s].destroyed =>
              /\ \A p \in ProbesOf(s) : probes'[p].queries = probes[p].queries
              /\ \A a \in DOMAIN loops' :
                    loops'[a].service = s =>
                        /\ a \in DOMAIN loops
                        /\ loops'[a].pc = "respond" => loops[a].pc = "respond"]_vars

\* C9 (as stated): the waits before successive re-broadcasts of a cycle are
\* 1000, 3000, 9000, ... ms.
C9_WaitsFromInitialDelay ==
    \A a \in DOMAIN loops :
        \A i \in DOMAIN loops[a].waits :
            loops[a].waits[i] = 1000 * 3 ^ (i - 1)

\* C9 (amended): the waits before successive re-broadcasts of a cycle are
\* 3000, 9000, 27000, ... ms, each 3 times the previous; none is scheduled
\* once the computed delay reaches 3,600,000 ms; a cycle makes at most 8
\* broadcasts.
C9_WaitsTripled ==
    \A a \in DOMAIN loops :
        /\ \A i \in DOMAIN loops[a].waits :
              /\ loops[a].waits[i] = 1000 * 3 ^ i
              /\ loops[a].waits[i] < 3600000
        /\ Len(loops[a].waits) <= loops[a].completed
        /\ loops[a].completed <= 8
        /\ loops[a].pc = "timer" => Len(loops[a].waits) = loops[a].completed
        /\ 1000 * 3 ^ loops[a].completed >= 3600000 => loops[a].pc = "idle"

C9_Witness ==
    \E a \in DOMAIN loops :
        /\ loops[a].waits = <<3000, 9000, 27000, 81000, 243000, 729000, 2187000>>
        /\ loops[a].completed = 8
        /\ ~service[loops[a].service].destroyed
        /\ loops[a].pc = "idle"

\* C10: nameAttempt is 1 plus the number of collisions detected for the
\* service; a renamed service is called originalName + " (" + nameAttempt +
\* ")"; originalName, once set, is the published name; fqdn is name + "." +
\* type in every state.
Collisions(s) ==
    Cardinality({ <<p, i>> \in (DOMAIN probes) \X (1..2) :
                     /\ probes[p].service = s
                     /\ i \in DOMAIN probes[p].results
                     /\ probes[p].results[i].exists })

C10_NamesConsistent ==
    \A s \in Created :
        LET sv == service[s] IN
        /\ sv.fqdn = sv.name \o <<".">> \o sv.type
        /\ sv.originalName \in {<<>>, PublishName(s)}
        /\ sv.originalName = <<>> => sv.nameAttempt = 0 /\ sv.name = PublishName(s)
        /\ sv.originalName # <<>> =>
              /\ sv.nameAttempt = 1 + Collisions(s)
              /\ sv.nameAttempt = 1 => sv.name = sv.originalName
              /\ sv.nameAttempt = 2 =>
                    sv.name = sv.originalName \o <<" ", "(", "2", ")">>
              /\ sv.nameAttempt = 3 =>
                    sv.name = sv.originalName \o <<" ", "(", "3", ")">>
              /\ sv.nameAttempt <= 3

C10_Witness ==
    \E s \in Created :
        /\ service[s].nameAttempt = 2
        /\ service[s].name = <<"T", "v", " ", "(", "2", ")">>
        /\ service[s].fqdn = <<"T", "v", " ", "(", "2", ")", ".", "h">>

\* Services whose activated flag is set
Activated == { s \in Services : service[s].activated }

\* C11: unpublishAll(cb) with k >= 1 activated services deactivates all of
\* them, unregisters their records, issues exactly one goodbye broadcast
\* holding the records of all of them with ttl 0 and empties the
\* collection; when a goodbye completes, published is cleared on its
\* services and its callback is invoked, once.
C11_UnpublishAllBatches ==
    /\ [][(UnpublishAll /\ Activated # {}) =>
             /\ \A s \in Activated :
                   ~service'[s].activated /\ service[s].fqdn \notin cache'
             /\ services' = <<>>
             /\ Len(goodbyes') = Len(goodbyes) + 1
             /\ LET gb == goodbyes'[Len(goodbyes')] IN
                   /\ Range(gb.services) = Activated
                   /\ Len(gb.records) = Cardinality(Activated)
                   /\ \A i \in DOMAIN gb.records :
                         gb.records[i] =
                            [name |-> service[gb.services[i]].fqdn, ttl |-> 0]
                   /\ gb.id = calls + 1]_vars
    /\ [][\A g \in DOMAIN goodbyes : GoodbyeDone(g) =>
             /\ \A s \in Range(goodbyes[g].services) : ~service'[s].published
             /\ cbLog' = Append(cbLog, goodbyes[g].id)
             /\ goodbyes[g].id \notin Range(cbLog)]_vars

\* C12: the registry's collection holds exactly the activated services.
C12_CollectionIsActivated ==
    \A s \in Services : service[s].activated <=> s \in Range(services)

\* C13: a published service has had at least one broadcast of its records
\* under its current name complete, and a service whose published flag is
\* set is never renamed.
C13_PublishedUnderCurrentName ==
    /\ [](\A s \in Services : service[s].published =>
             \E a \in LoopsOf(s) :
                /\ loops[a].completed >= 1
                /\ \E i \in DOMAIN loops[a].packet :
                      loops[a].packet[i].name = service[s].fqdn)
    /\ [][\A s \in Services : service[s].published =>
             service'[s].name = service[s].name]_vars

\* Number of positions of the collection that hold service s
Occurrences(s) == Cardinality({ i \in DOMAIN services : services[i] = s })

\* C14: no service appears more than once in the registry's collection,
\* and a step that renames a service on conflict leaves it in the
\* collection exactly once, started again.
C14_NoDuplicates ==
    /\ [](\A s \in Services : Occurrences(s) <= 1)
    /\ [][\A s \in Services :
             service'[s].nameAttempt > service[s].nameAttempt =>
                /\ service'[s].activated
                /\ Cardinality({ i \in DOMAIN services' : services'[i] = s }) = 1]_vars

\* A service renamed on conflict while a second service is in the
\* collection, both present once
C14_Witness ==
    /\ Len(services) = 2
    /\ \E s \in Services : service[s].nameAttempt >= 2 /\ Occurrences(s) = 1

\* C15: unpublishAll(cb) called when no service is activated invokes cb
\* at once and touches neither the transport's records (unregister) nor
\* its outgoing broadcasts (respond); no service changes.
C15_EmptyUnpublishAll ==
    [][(UnpublishAll /\ Activated = {}) =>
          /\ cbLog' = Append(cbLog, calls + 1)
          /\ goodbyes' = goodbyes
          /\ cache' = cache
          /\ loops' = loops
          /\ service' = service]_vars

\* The third call was an unpublishAll that found nothing activated: its
\* callback has run while the goodbye of the second call is still in
\* flight and no broadcast has completed
C15_Witness ==
    /\ calls = 3
    /\ cbLog = <<3>>
    /\ Len(goodbyes) = 1 /\ goodbyes[1].id = 2
    /\ \A a \in DOMAIN loops : loops[a].completed = 0

\* The service of probe p is deactivated or destroyed, or was deactivated
\* and started again after p began (a later probe run of it exists)
Interrupted(p) ==
    LET s == probes[p].service IN
    \/ ~service[s].activated
    \/ service[s].destroyed
    \/ \E q \in ProbesOf(s) : q > p

\* C17: a probe whose service was deactivated or destroyed during the
\* jitter wait sends no query and does not invoke its completion callback,
\* also when the service was started again before the jitter timer fires.
C17_JitterAbort ==
    [][\A p \in DOMAIN probes :
          (probes[p].pc = "jitter" /\ Interrupted(p)) =>
             /\ probes'[p].queries = <<>>
             /\ probes'[p].results = <<>>]_vars

\* C18: destroyed is never reset, and once it is set no timer, completion
\* callback or response event changes the service's name, fqdn,
\* nameAttempt, activated or published, or emits "up" for it.
C18_DestroyedIsFrozen ==
    [][\A s \in Services : service[s].destroyed =>
          /\ service'[s].destroyed
          /\ calls' = calls =>
                /\ service'[s].name = service[s].name
                /\ service'[s].fqdn = service[s].fqdn
                /\ service'[s].nameAttempt = service[s].nameAttempt
                /\ service'[s].activated = service[s].activated
                /\ service'[s].published = service[s].published
                /\ \A a \in LoopsOf(s) : loops'[a].ups = loops[a].ups]_vars

\* Names of the answer and additional records of a packet
NamesOf(packet) ==
    { packet.answers[i].name : i \in DOMAIN packet.answers }
    \cup { packet.additionals[i].name : i \in DOMAIN packet.additionals }
\* Some record of the packet names the fqdn, letter case aside
Names(packet, fqdn) == \E n \in NamesOf(packet) : ToLower(n) = ToLower(fqdn)
\* Probe runs of s that listen and have transmitted a query
Waiting(s) == { p \in ProbesOf(s) : probes[p].listening /\ probes[p].sent }
\* Probe runs of s whose response listener is registered
Listening(s) == { p \in ProbesOf(s) : probes[p].listening }

\* C19: while services A and B probe concurrently, a response whose
\* records name A's fqdn and not B's, delivered in any reachable state,
\* finalizes a waiting probe of A with "exists" and renames A, and leaves
\* B's probes, their results, B's name and B's nameAttempt as they were.
C19_ResponseFilteredPerService ==
    \A A, B \in Created :
       (A # B /\ Waiting(A) # {} /\ Listening(B) # {}) =>
          \A packet \in Packets :
             (Names(packet, service[A].fqdn) /\ ~Names(packet, service[B].fqdn)) =>
                \A st \in {Delivered(packet)} :
                   /\ \E p \in Waiting(A) :
                         /\ st.probes[p].results =
                               Append(probes[p].results,
                                      [exists |-> TRUE, fqdn |-> service[A].fqdn])
                         /\ ~st.probes[p].listening
                   /\ st.service[A].nameAttempt = service[A].nameAttempt + 1
                   /\ st.service[B] = service[B]
                   /\ \A q \in ProbesOf(B) : st.probes[q] = probes[q]

\* Two services with different fqdns had probes waiting; a response naming
\* one of them finalized that probe and renamed that service, while the
\* other's probe still waits, unfinalized, under its first name
C19_Witness ==
    \E s1, s2 \in Created :
       /\ service[s1].fqdn # service[s2].fqdn
       /\ service[s1].nameAttempt = 2
       /\ \E p \in ProbesOf(s1) : ReportedExists(p) /\ probes[p].retries >= 1
       /\ service[s2].nameAttempt = 1
       /\ \E q \in Waiting(s2) : probes[q].results = <<>> /\ probes[q].retries >= 1

\* Probe runs of s with a registered listener, a pending timer or a query
\* in flight, and announce loops of s with a broadcast in flight or a
\* re-broadcast scheduled
LiveProbes(s) == { p \in ProbesOf(s) : probes[p].listening \/ probes[p].pc # "idle" }
LiveLoops(s) == { a \in LoopsOf(s) : loops[a].pc # "idle" }

\* C20: each service has at most one live probe run and at most one live
\* announce loop.
C20_OneRunPerService ==
    \A s \in Services :
       Cardinality(LiveProbes(s)) <= 1 /\ Cardinality(LiveLoops(s)) <= 1

\* C16: every "error" event the transport emits after a service was
\* started is delivered to the started services as an "error"
\* notification, and handling it raises nothing else.
C16_ErrorForwarded ==
    /\ \A i \in DOMAIN errorLog : errorLog[i].event = "error"
    /\ errorLog # <<>> =>
          \A s \in Range(errorListeners) :
             \E i \in DOMAIN errorLog : errorLog[i].service = s

====
